---- MODULE Spec2Model ----
(***************************************************************************)
(* Model of the aligned_layer batcher client:                              *)
(*   - batcher/aligned-batcher-lib/src/types/mod.rs : the commitment of a  *)
(*     VerificationData, the Merkle backend (leaf and parent hash), the    *)
(*     BatchInclusionData and the signed ClientMessage;                    *)
(*   - batcher/aligned/src/main.rs : the submit command.                   *)
(*                                                                         *)
(* Keccak-256 and ECDSA are primitives: a digest is the term               *)
(* keccak256(input) (no collisions, never the 32 zero bytes), a signature  *)
(* is the term (key, digest) or a malformed blob.  Every byte, digest and  *)
(* address is a node [t, k] so that any two values can be compared.        *)
(***************************************************************************)
EXTENDS Integers, Sequences, FiniteSets, TLC

VARIABLES
    \* ---- types/mod.rs: one VerificationData through commit / sign / verify
    build,        \* "debug" or "release": debug_assert_eq! exists only in debug
    input,        \* the VerificationData under consideration
    committed,    \* result of VerificationDataCommitment::from(input)
    msg,          \* the ClientMessage built from input (and maybe altered since)
    tampered,     \* which part of msg was altered after signing ("none" if none)
    recovered,    \* result of msg.verify_signature()
    \* ---- types/mod.rs: a batch, its Merkle tree and one inclusion proof
    batch,        \* sequence of ClientMessage accepted into the batch
    tree,         \* the MerkleTree built over the batch's commitments
    inclusion,    \* result of BatchInclusionData::new(index, tree)
    verdict,      \* result of proof.verify(root, index, leaf)
    \* ---- main.rs: one run of the submit command
    pc,           \* position in main
    args,         \* SubmitArgs
    connected,    \* a connection to the batching service was opened
    arr,          \* verification_data_arr handed to aligned_sdk::submit
    outbox,       \* ClientMessages written to the stream, in order
    answered,     \* indices (into outbox) the service has answered, in arrival order
    received,     \* AlignedVerificationData assembled by submit, in arrival order
    streamOpen,   \* the read half has not been closed by the service
    result,       \* what submit returned
    log,          \* lines logged by main
    saved,        \* files written by save_response
    exit          \* how main ended

typesVars == <<build, input, committed, msg, tampered, recovered>>
treeVars  == <<batch, tree, inclusion, verdict>>
cliVars   == <<pc, args, connected, arr, outbox, answered, received,
               streamOpen, result, log, saved, exit>>
vars      == <<typesVars, treeVars, cliVars>>

-----------------------------------------------------------------------------
(* Bounds *)

MaxLen   == 2      \* longest byte sequence of a file / field
MaxBatch == 5      \* largest batch
MaxItems == 3      \* most items handed to submit in one call
MaxRep   == 3      \* largest --repetitions

-----------------------------------------------------------------------------
(* Values *)

Atom(s) == [t |-> s, k |-> <<>>]

\* The one byte value of the model; byte sequences differ by their length.
Byte == Atom("byte")

RECURSIVE Repeat(_, _)
Repeat(x, n) == IF n = 0 THEN <<>> ELSE <<x>> \o Repeat(x, n - 1)

ByteSeqs == { Repeat(Byte, n) : n \in 0..MaxLen }

None    == [some |-> FALSE, v |-> <<>>]
Some(x) == [some |-> TRUE, v |-> x]
OptionByteSeqs == {None} \cup { Some(b) : b \in ByteSeqs }

\* [0u8; 32]
Zero32 == Atom("zero32")

\* Keccak256::new(); update(data); finalize()
Keccak256(data) == [t |-> "keccak256", k |-> data]

ProvingSystemId ==
    {"GnarkPlonkBls12_381", "GnarkPlonkBn254", "Groth16Bn254", "SP1", "Halo2KZG", "Halo2IPA"}

\* Signing keys and the addresses derived from them.
Keys == {"k1", "k2"}
AddressOf(key) == [t |-> "address", k |-> <<Atom(key)>>]
Addresses == { AddressOf(key) : key \in Keys }

VerificationData ==
    [ proving_system       : ProvingSystemId,
      proof                : ByteSeqs,
      pub_input            : OptionByteSeqs,
      verification_key     : OptionByteSeqs,
      vm_program_code      : OptionByteSeqs,
      proof_generator_addr : Addresses ]

\* #[derive(Default)] VerificationDataCommitment
DefaultCommitment ==
    [ proof_commitment                   |-> Zero32,
      pub_input_commitment               |-> Zero32,
      proving_system_aux_data_commitment |-> Zero32,
      proof_generator_addr               |-> Atom("zero20") ]

Ok(x)      == [tag |-> "Ok", val |-> x]
Err(e)     == [tag |-> "Err", val |-> Atom(e)]
Panic(why) == [tag |-> "panic", val |-> Atom(why)]
NotRun     == [tag |-> "none", val |-> Atom("none")]

-----------------------------------------------------------------------------
(* types/mod.rs: commitment *)

\* pub_input_commitment: [0u8; 32] unless pub_input is Some
PubInputCommitmentHashEmpty(v) ==
    IF v.pub_input.some THEN Keccak256(v.pub_input.v) ELSE Keccak256(<<>>)

PubInputCommitment(v) ==
    IF v.pub_input.some THEN Keccak256(v.pub_input.v) ELSE Zero32

\* proving_system_aux_data_commitment: vm_program_code first, else verification_key
AuxDataCommitment(v) ==
    IF v.vm_program_code.some THEN Keccak256(v.vm_program_code.v)
    ELSE IF v.verification_key.some THEN Keccak256(v.verification_key.v)
    ELSE Zero32

\* debug_assert_eq!(verification_data.proving_system, ProvingSystemId::SP1),
\* reached only when vm_program_code is Some and compiled only in debug builds
DebugAssertFails(v, bld) ==
    bld = "debug" /\ v.vm_program_code.some /\ v.proving_system # "SP1"

\* the fields of the commitment, when from() returns
CommitmentOf(v) ==
    [ proof_commitment                   |-> Keccak256(v.proof),
      pub_input_commitment               |-> PubInputCommitment(v),
      proving_system_aux_data_commitment |-> AuxDataCommitment(v),
      proof_generator_addr               |-> v.proof_generator_addr ]

\* impl From<VerificationData> for VerificationDataCommitment
\* result: [tag |-> "Ok", c |-> commitment] or [tag |-> "panic", c |-> default]
VerificationDataCommitment_from(v, bld) ==
    IF DebugAssertFails(v, bld)
    THEN [tag |-> "panic", c |-> DefaultCommitment]
    ELSE [tag |-> "Ok", c |-> CommitmentOf(v)]

NotCommitted == [tag |-> "none", c |-> DefaultCommitment]

-----------------------------------------------------------------------------
(* types/mod.rs: Merkle backend *)

\* hash_data: the four fields fed to one hasher in this order
hash_data(leaf) ==
    Keccak256(<< leaf.proof_commitment,
                 leaf.pub_input_commitment,
                 leaf.proving_system_aux_data_commitment,
                 leaf.proof_generator_addr >>)

hash_new_parent_swapped(child_1, child_2) == Keccak256(<<child_2, child_1>>)

hash_new_parent(child_1, child_2) == Keccak256(<<child_1, child_2>>)

-----------------------------------------------------------------------------
(* types/mod.rs: ClientMessage *)

\* ethers Signature: a 65-byte blob; one produced by signing is (key, digest)
Sig(key, digest) == [kind |-> "ecdsa", key |-> key, digest |-> digest]
MalformedSig     == [kind |-> "malformed", key |-> "none", digest |-> Zero32]

\* Signature::recover(message): the signer's address when the blob is a
\* signature of this digest, an unrelated address when it is a signature of
\* another digest, an error when the blob is no valid signature.
Recover(sig, digest) ==
    IF sig.kind = "malformed" THEN Err("RecoveryError")
    ELSE IF sig.digest = digest THEN Ok(AddressOf(sig.key))
    ELSE Ok([t |-> "address", k |-> <<Atom(sig.key), sig.digest, digest>>])

\* Signature::verify(message, address): recovers and compares
Verify(sig, digest, address) ==
    IF Recover(sig, digest) = Ok(address) THEN Ok(address) ELSE Err("VerificationError")

\* placeholder for "no VerificationData here"
NoVerificationData ==
    [ proving_system       |-> "SP1",
      proof                |-> <<>>,
      pub_input            |-> None,
      verification_key     |-> None,
      vm_program_code      |-> None,
      proof_generator_addr |-> AddressOf("k1") ]

NoMsg == [state |-> "none", verification_data |-> NoVerificationData,
          signature |-> MalformedSig]

\* ClientMessage::new(verification_data, wallet)
ClientMessage_new(v, key, bld) ==
    LET c == VerificationDataCommitment_from(v, bld) IN
    IF c.tag = "panic"
    THEN [state |-> "panic", verification_data |-> v, signature |-> MalformedSig]
    ELSE [state |-> "built", verification_data |-> v,
          signature |-> Sig(key, hash_data(c.c))]

\* ClientMessage::verify_signature(&self)
verify_signature(m, bld) ==
    LET c == VerificationDataCommitment_from(m.verification_data, bld) IN
    IF c.tag = "panic" THEN Panic("debug_assert_eq")
    ELSE LET hashed_leaf == hash_data(c.c)
             rec         == Recover(m.signature, hashed_leaf)
         IN  IF rec.tag = "Err" THEN Panic("unwrap on RecoveryError")
             ELSE LET chk == Verify(m.signature, hashed_leaf, rec.val)
                  IN  IF chk.tag = "Err" THEN chk ELSE Ok(rec.val)

-----------------------------------------------------------------------------
(* A VerificationData through commit, sign, transport and verify_signature *)

\* The client's wallet; OtherKey is somebody else's.
SignerKey == "k1"
OtherKey  == "k2"

IdleTypes ==
    /\ build = "release"
    /\ input = NoVerificationData
    /\ committed = NotCommitted
    /\ msg = NoMsg
    /\ tampered = "none"
    /\ recovered = NotRun

InitTypes ==
    /\ build \in {"debug", "release"}
    /\ input \in VerificationData
    /\ committed = NotCommitted
    /\ msg = NoMsg
    /\ tampered = "none"
    /\ recovered = NotRun

\* let c: VerificationDataCommitment = input.into();
Commit ==
    /\ committed.tag = "none"
    /\ committed' = VerificationDataCommitment_from(input, build)
    /\ UNCHANGED <<build, input, msg, tampered, recovered>>
    /\ UNCHANGED <<treeVars, cliVars>>

\* ClientMessage::new(input, wallet).await
Sign ==
    /\ msg.state = "none"
    /\ msg' = ClientMessage_new(input, SignerKey, build)
    /\ UNCHANGED <<build, input, committed, tampered, recovered>>
    /\ UNCHANGED <<treeVars, cliVars>>

Fields ==
    {"proving_system", "proof", "pub_input", "verification_key",
     "vm_program_code", "proof_generator_addr"}

FieldValues(f) ==
    CASE f = "proving_system"       -> ProvingSystemId
      [] f = "proof"                -> ByteSeqs
      [] f = "proof_generator_addr" -> Addresses
      [] OTHER                      -> OptionByteSeqs

\* The message is a serde value on the wire: whoever relays it can replace one
\* field of verification_data before the receiver deserializes it.
TamperField ==
    /\ msg.state = "built"
    /\ tampered = "none"
    /\ recovered.tag = "none"
    /\ \E f \in Fields : \E x \in FieldValues(f) :
          /\ x # msg.verification_data[f]
          /\ msg' = [msg EXCEPT !.verification_data[f] = x]
          /\ tampered' = f
    /\ UNCHANGED <<build, input, committed, recovered>>
    /\ UNCHANGED <<treeVars, cliVars>>

\* ... or replace the 65 signature bytes: by bytes that are no signature, or by
\* a signature somebody else made over the same leaf digest.
TamperSignature ==
    /\ msg.state = "built"
    /\ tampered = "none"
    /\ recovered.tag = "none"
    /\ \E s \in {MalformedSig, Sig(OtherKey, msg.signature.digest)} :
          msg' = [msg EXCEPT !.signature = s]
    /\ tampered' = "signature"
    /\ UNCHANGED <<build, input, committed, recovered>>
    /\ UNCHANGED <<treeVars, cliVars>>

\* msg.verify_signature()
VerifySignature ==
    /\ msg.state = "built"
    /\ recovered.tag = "none"
    /\ recovered' = verify_signature(msg, build)
    /\ UNCHANGED <<build, input, committed, msg, tampered>>
    /\ UNCHANGED <<treeVars, cliVars>>

NextTypes == Commit \/ Sign \/ TamperField \/ TamperSignature \/ VerifySignature

-----------------------------------------------------------------------------
(* Merkle tree over the backend VerificationCommitmentBatch *)

RECURSIVE IsPowerOfTwo(_)
IsPowerOfTwo(n) == n = 1 \/ (n > 1 /\ n % 2 = 0 /\ IsPowerOfTwo(n \div 2))

\* odd counts: the last hashed leaf is repeated until the count is a power of two
RECURSIVE complete_until_power_of_two(_)
complete_until_power_of_two(hashed) ==
    IF IsPowerOfTwo(Len(hashed)) THEN hashed
    ELSE complete_until_power_of_two(Append(hashed, hashed[Len(hashed)]))

\* Array-backed tree: position 0 is the root, the children of position i are
\* 2i+1 and 2i+2, the n leaves are the last n positions (sequence index = pos+1).
MerkleTree_build(commitments) ==
    LET hashed == complete_until_power_of_two(
                      [i \in 1..Len(commitments) |-> hash_data(commitments[i])])
        n      == Len(hashed)
        node[p \in 0..(2 * n - 2)] ==
            IF p >= n - 1 THEN hashed[p - (n - 1) + 1]
            ELSE hash_new_parent(node[2 * p + 1], node[2 * p + 2])
    IN  [built |-> TRUE, root |-> node[0], nodes |-> [i \in 1..(2 * n - 1) |-> node[i - 1]]]

NoTree == [built |-> FALSE, root |-> Zero32, nodes |-> <<>>]

sibling_index(pos) == IF pos % 2 = 1 THEN pos + 1 ELSE pos - 1
parent_index(pos)  == IF pos % 2 = 1 THEN (pos - 1) \div 2 ELSE (pos - 2) \div 2

\* build_merkle_path: siblings from the leaf position up to the root; an Err
\* when a sibling position is outside the array
RECURSIVE build_merkle_path(_, _)
build_merkle_path(nodes, pos) ==
    IF pos = 0 THEN [ok |-> TRUE, path |-> <<>>]
    ELSE IF sibling_index(pos) + 1 > Len(nodes) THEN [ok |-> FALSE, path |-> <<>>]
    ELSE LET rest == build_merkle_path(nodes, parent_index(pos))
         IN  [ok |-> rest.ok, path |-> <<nodes[sibling_index(pos) + 1]>> \o rest.path]

\* MerkleTree::get_proof_by_pos(pos) -> Option<Proof>
get_proof_by_pos(t, pos) ==
    build_merkle_path(t.nodes, pos + (Len(t.nodes) \div 2))

\* Proof::verify(root, index, leaf)
RECURSIVE climb(_, _, _)
climb(hashed_value, index, path) ==
    IF path = <<>> THEN hashed_value
    ELSE climb(IF index % 2 = 0 THEN hash_new_parent(hashed_value, path[1])
                                ELSE hash_new_parent(path[1], hashed_value),
               index \div 2, Tail(path))

Proof_verify(path, root, index, leaf) == climb(hash_data(leaf), index, path) = root

NoInclusion ==
    [tag |-> "none", batch_merkle_root |-> Zero32, batch_inclusion_proof |-> <<>>,
     index_in_batch |-> 0]

\* BatchInclusionData::new(verification_data_batch_index, batch_merkle_tree)
BatchInclusionData_new_off_by_one(index, t) ==
    LET p == get_proof_by_pos(t, index) IN
    IF ~p.ok THEN [NoInclusion EXCEPT !.tag = "panic"]
    ELSE [tag |-> "Ok", batch_merkle_root |-> t.root,
          batch_inclusion_proof |-> p.path, index_in_batch |-> index + 1]

BatchInclusionData_new(index, t) ==
    LET p == get_proof_by_pos(t, index) IN
    IF ~p.ok THEN [NoInclusion EXCEPT !.tag = "panic"]
    ELSE [tag |-> "Ok", batch_merkle_root |-> t.root,
          batch_inclusion_proof |-> p.path, index_in_batch |-> index]

\* The submissions a batch is drawn from: SP1 proofs of one program.
BatchPool ==
    { [NoVerificationData EXCEPT !.proof = p, !.vm_program_code = Some(<<Byte>>)] :
        p \in ByteSeqs }

Commitments(b) ==
    [i \in 1..Len(b) |-> VerificationDataCommitment_from(b[i].verification_data, "release").c]

IdleTree ==
    /\ batch = <<>>
    /\ tree = NoTree
    /\ inclusion = NoInclusion
    /\ verdict = "none"

\* a signed submission is appended to the current batch
AddToBatch ==
    /\ ~tree.built
    /\ Len(batch) < MaxBatch
    /\ \E v \in BatchPool :
          batch' = Append(batch, ClientMessage_new(v, SignerKey, "release"))
    /\ UNCHANGED <<tree, inclusion, verdict>>
    /\ UNCHANGED <<typesVars, cliVars>>

\* MerkleTree::<VerificationCommitmentBatch>::build(&commitments)
BuildTree ==
    /\ ~tree.built
    /\ Len(batch) >= 1
    /\ tree' = MerkleTree_build(Commitments(batch))
    /\ UNCHANGED <<batch, inclusion, verdict>>
    /\ UNCHANGED <<typesVars, cliVars>>

\* BatchInclusionData::new(i, &tree), for a leaf of the batch or one past it
NewInclusion ==
    /\ tree.built
    /\ inclusion.tag = "none"
    /\ \E i \in 0..Len(batch) : inclusion' = BatchInclusionData_new(i, tree)
    /\ UNCHANGED <<batch, tree, verdict>>
    /\ UNCHANGED <<typesVars, cliVars>>

\* the client checks the response against its own commitment
VerifyInclusion ==
    /\ inclusion.tag = "Ok"
    /\ verdict = "none"
    /\ inclusion.index_in_batch < Len(batch)
    /\ verdict' =
          IF Proof_verify(inclusion.batch_inclusion_proof, inclusion.batch_merkle_root,
                          inclusion.index_in_batch,
                          Commitments(batch)[inclusion.index_in_batch + 1])
          THEN "true" ELSE "false"
    /\ UNCHANGED <<batch, tree, inclusion>>
    /\ UNCHANGED <<typesVars, cliVars>>

NextTree == AddToBatch \/ BuildTree \/ NewInclusion \/ VerifyInclusion

-----------------------------------------------------------------------------
(* main.rs: the submit command *)

\* what --proving_system can carry: the six tags and a string that is none of them
ProvingSystemFlags == ProvingSystemId \cup {"Plonky3"}

\* Option<PathBuf>: the argument was given or not.  Files that are given hold
\* FileContent; the proof file may also be unreadable.
FileContent == <<Byte>>

SubmitArgs ==
    [ proving_system_flag        : ProvingSystemFlags,
      proof_readable             : BOOLEAN,
      pub_input_file_name        : BOOLEAN,
      verification_key_file_name : BOOLEAN,
      vm_program_code_file_name  : BOOLEAN,
      pub_input_readable         : BOOLEAN,
      verification_key_readable  : BOOLEAN,
      vm_program_code_readable   : BOOLEAN,
      repetitions                : 0..MaxRep ]

NoArgs ==
    [ proving_system_flag        |-> "SP1",
      proof_readable             |-> TRUE,
      pub_input_file_name        |-> FALSE,
      verification_key_file_name |-> FALSE,
      vm_program_code_file_name  |-> FALSE,
      pub_input_readable         |-> TRUE,
      verification_key_readable  |-> TRUE,
      vm_program_code_readable   |-> TRUE,
      repetitions                |-> 1 ]

\* parse_proving_system(&str)
parse_proving_system(flag) ==
    IF flag \in ProvingSystemId THEN [ok |-> TRUE, id |-> flag]
    ELSE [ok |-> FALSE, id |-> "SP1"]

VdOk(v)   == [tag |-> "Ok", err |-> "none", vd |-> v]
VdErr(e)  == [tag |-> "Err", err |-> e, vd |-> NoVerificationData]

\* read_file(file_name): the bytes, or IoError when the file cannot be read
read_file(readable) ==
    IF readable THEN [err |-> "none", bytes |-> FileContent]
    ELSE [err |-> "IoError", bytes |-> <<>>]

\* read_file_option(param_name, file_name)
read_file_option(given, readable) ==
    IF ~given THEN [err |-> "MissingParameter", bytes |-> <<>>]
    ELSE read_file(readable)

\* the SP1 arm also keeps a public input that was supplied
verification_data_from_args_keeps_pub_input(a) ==
    LET ps == parse_proving_system(a.proving_system_flag)
        proof == read_file(a.proof_readable)
    IN
    IF ~ps.ok THEN VdErr("InvalidProvingSystem")
    ELSE IF proof.err # "none" THEN VdErr(proof.err)
    ELSE LET base == [NoVerificationData EXCEPT !.proving_system = ps.id,
                                                !.proof = proof.bytes]
         IN  IF ps.id = "SP1"
             THEN LET vm == read_file_option(a.vm_program_code_file_name,
                                             a.vm_program_code_readable)
                  IN  IF vm.err # "none" THEN VdErr(vm.err)
                      ELSE VdOk([base EXCEPT
                                   !.vm_program_code = Some(vm.bytes),
                                   !.pub_input = IF a.pub_input_file_name
                                                 THEN Some(FileContent) ELSE None])
             ELSE LET vk == read_file_option(a.verification_key_file_name,
                                             a.verification_key_readable)
                      pi == read_file_option(a.pub_input_file_name,
                                             a.pub_input_readable)
                  IN  IF vk.err # "none" THEN VdErr(vk.err)
                      ELSE IF pi.err # "none" THEN VdErr(pi.err)
                      ELSE VdOk([base EXCEPT !.verification_key = Some(vk.bytes),
                                             !.pub_input = Some(pi.bytes)])

\* verification_data_from_args(args)
verification_data_from_args(a) ==
    LET ps == parse_proving_system(a.proving_system_flag)
        proof == read_file(a.proof_readable)
    IN
    IF ~ps.ok THEN VdErr("InvalidProvingSystem")
    ELSE IF proof.err # "none" THEN VdErr(proof.err)
    ELSE LET base == [NoVerificationData EXCEPT !.proving_system = ps.id,
                                                !.proof = proof.bytes]
         IN  IF ps.id = "SP1"
             THEN LET vm == read_file_option(a.vm_program_code_file_name,
                                             a.vm_program_code_readable)
                  IN  IF vm.err # "none" THEN VdErr(vm.err)
                      ELSE VdOk([base EXCEPT !.vm_program_code = Some(vm.bytes)])
             ELSE LET vk == read_file_option(a.verification_key_file_name,
                                             a.verification_key_readable)
                      pi == read_file_option(a.pub_input_file_name,
                                             a.pub_input_readable)
                  IN  IF vk.err # "none" THEN VdErr(vk.err)
                      ELSE IF pi.err # "none" THEN VdErr(pi.err)
                      ELSE VdOk([base EXCEPT !.verification_key = Some(vk.bytes),
                                             !.pub_input = Some(pi.bytes)])

\* let verification_data_arr = vec![verification_data.clone()];
VerificationDataArr(vd, a) == <<vd>>

NoResult == [tag |-> "none", items |-> <<>>]

\* a line of the log: its text and the number it carries (0 if none)
LogLine(text, n) == [line |-> text, n |-> n]

\* else { error!("No batch inclusion data was received from the batcher") }
LogNothing(l) == l

LogNoData(l) ==
    Append(l, LogLine("No batch inclusion data was received from the batcher", 0))

\* save_response: the file name is the root's first 8 hex digits, "_", the index
save_response(avd) ==
    [root |-> avd.batch_merkle_root, index |-> avd.index_in_batch]

IdleCli ==
    /\ pc = "idle"
    /\ args = NoArgs
    /\ connected = FALSE
    /\ arr = <<>>
    /\ outbox = <<>>
    /\ answered = <<>>
    /\ received = <<>>
    /\ streamOpen = FALSE
    /\ result = NoResult
    /\ log = <<>>
    /\ saved = <<>>
    /\ exit = "running"

InitCli ==
    /\ pc = "connect"
    /\ args \in SubmitArgs
    /\ connected = FALSE
    /\ arr = <<>>
    /\ outbox = <<>>
    /\ answered = <<>>
    /\ received = <<>>
    /\ streamOpen = FALSE
    /\ result = NoResult
    /\ log = <<>>
    /\ saved = <<>>
    /\ exit = "running"

\* connect_async(&submit_args.connect_addr).await: handshake done
ConnectOk ==
    /\ pc = "connect"
    /\ connected' = TRUE
    /\ streamOpen' = TRUE
    /\ log' = Append(log, LogLine("WebSocket handshake has been successfully completed", 0))
    /\ pc' = "create_dir"
    /\ UNCHANGED <<args, arr, outbox, answered, received, result, saved, exit>>
    /\ UNCHANGED <<typesVars, treeVars>>

\* ... .map_err(SubmitError::ConnectionError)?
ConnectFails ==
    /\ pc = "connect"
    /\ pc' = "done"
    /\ exit' = "Err(ConnectionError)"
    /\ UNCHANGED <<args, connected, arr, outbox, answered, received, streamOpen,
                   result, log, saved>>
    /\ UNCHANGED <<typesVars, treeVars>>

\* std::fs::create_dir_all(..)
CreateDirOk ==
    /\ pc = "create_dir"
    /\ pc' = "args"
    /\ UNCHANGED <<args, connected, arr, outbox, answered, received, streamOpen,
                   result, log, saved, exit>>
    /\ UNCHANGED <<typesVars, treeVars>>

\* ... .map_err(|e| SubmitError::IoError(..))?
CreateDirFails ==
    /\ pc = "create_dir"
    /\ pc' = "done"
    /\ exit' = "Err(IoError)"
    /\ UNCHANGED <<args, connected, arr, outbox, answered, received, streamOpen,
                   result, log, saved>>
    /\ UNCHANGED <<typesVars, treeVars>>

\* let verification_data = verification_data_from_args(submit_args).unwrap();
\* let verification_data_arr = vec![verification_data.clone()];
ReadArgsOk ==
    /\ pc = "args"
    /\ verification_data_from_args(args).tag = "Ok"
    /\ arr' = VerificationDataArr(verification_data_from_args(args).vd, args)
    /\ pc' = "sending"
    /\ UNCHANGED <<args, connected, outbox, answered, received, streamOpen,
                   result, log, saved, exit>>
    /\ UNCHANGED <<typesVars, treeVars>>

\* the unwrap panics with the error it was given: the message names it
ReadArgsPanics ==
    /\ pc = "args"
    /\ verification_data_from_args(args).tag = "Err"
    /\ log' = Append(log, LogLine(verification_data_from_args(args).err, 0))
    /\ pc' = "done"
    /\ exit' = "panic"
    /\ UNCHANGED <<args, connected, arr, outbox, answered, received, streamOpen,
                   result, saved>>
    /\ UNCHANGED <<typesVars, treeVars>>

-----------------------------------------------------------------------------
(* aligned_sdk::submit(ws_write_mutex, ws_read, verification_data_arr) *)

\* the service's answer to item j: the inclusion data of leaf j-1 in the batch
\* it built from the messages it has got on this connection
Response(j) ==
    [item |-> j,
     data |-> BatchInclusionData_new(j - 1, MerkleTree_build(Commitments(outbox)))]

\* AlignedVerificationData: the item's commitment joined with the response
AlignedVerificationData(r) ==
    [verification_data_commitment |-> CommitmentOf(arr[r.item]),
     batch_merkle_root            |-> r.data.batch_merkle_root,
     batch_inclusion_proof        |-> r.data.batch_inclusion_proof,
     index_in_batch               |-> r.data.index_in_batch]

\* what submit returns once it stops reading
SubmitResult(items) ==
    IF items = <<>> THEN [tag |-> "None", items |-> <<>>]
    ELSE [tag |-> "Some", items |-> items]

\* Sending: one ClientMessage per item, under the write lock
SubmitSend ==
    /\ pc = "sending"
    /\ streamOpen
    /\ Len(outbox) < Len(arr)
    /\ outbox' = Append(outbox, ClientMessage_new(arr[Len(outbox) + 1], SignerKey, "release"))
    /\ pc' = IF Len(outbox) + 1 = Len(arr) THEN "awaiting" ELSE "sending"
    /\ UNCHANGED <<args, connected, arr, answered, received, streamOpen,
                   result, log, saved, exit>>
    /\ UNCHANGED <<typesVars, treeVars>>

\* the stream was dropped before an item could be written: ConnectionError,
\* which main propagates with `?`
SubmitSendFails ==
    /\ pc = "sending"
    /\ ~streamOpen
    /\ result' = [tag |-> "Err", items |-> <<>>]
    /\ pc' = "done"
    /\ exit' = "Err(ConnectionError)"
    /\ UNCHANGED <<args, connected, arr, outbox, answered, received, streamOpen,
                   log, saved>>
    /\ UNCHANGED <<typesVars, treeVars>>

\* the batching service answers one of the messages it has got, in any order
BatcherRespond ==
    /\ pc \in {"sending", "awaiting"}
    /\ streamOpen
    /\ \E j \in 1..Len(outbox) :
          /\ \A i \in 1..Len(answered) : answered[i].item # j
          /\ answered' = Append(answered, Response(j))
    /\ UNCHANGED <<pc, args, connected, arr, outbox, received, streamOpen,
                   result, log, saved, exit>>
    /\ UNCHANGED <<typesVars, treeVars>>

\* the batching service closes the stream
BatcherClose ==
    /\ pc \in {"sending", "awaiting"}
    /\ streamOpen
    /\ streamOpen' = FALSE
    /\ UNCHANGED <<pc, args, connected, arr, outbox, answered, received,
                   result, log, saved, exit>>
    /\ UNCHANGED <<typesVars, treeVars>>

\* AwaitingResponses: the next inbound message becomes an AlignedVerificationData
SubmitReceive ==
    /\ pc = "awaiting"
    /\ Len(received) < Len(answered)
    /\ received' = Append(received, AlignedVerificationData(answered[Len(received) + 1]))
    /\ UNCHANGED <<pc, args, connected, arr, outbox, answered, streamOpen,
                   result, log, saved, exit>>
    /\ UNCHANGED <<typesVars, treeVars>>

\* every item answered, or the stream is closed and drained
SubmitReturn ==
    /\ pc = "awaiting"
    /\ \/ Len(received) = Len(arr)
       \/ ~streamOpen /\ Len(received) = Len(answered)
    /\ result' = SubmitResult(received)
    /\ pc' = "handle"
    /\ UNCHANGED <<args, connected, arr, outbox, answered, received, streamOpen,
                   log, saved, exit>>
    /\ UNCHANGED <<typesVars, treeVars>>

-----------------------------------------------------------------------------
(* main.rs: what main does with the value submit returned *)

\* for aligned_verification_data in vec { save_response(dir, &avd)?; }
SaveResponse ==
    /\ pc = "handle"
    /\ result.tag = "Some"
    /\ Len(saved) < Len(result.items)
    /\ saved' = Append(saved, save_response(result.items[Len(saved) + 1]))
    /\ log' = Append(log, LogLine("Batch inclusion data written into",
                                   result.items[Len(saved) + 1].index_in_batch))
    /\ UNCHANGED <<pc, args, connected, arr, outbox, answered, received,
                   streamOpen, result, exit>>
    /\ UNCHANGED <<typesVars, treeVars>>

\* File::create(&path).unwrap() / write_all(..).unwrap() on a failing file system
SaveResponsePanics ==
    /\ pc = "handle"
    /\ result.tag = "Some"
    /\ Len(saved) < Len(result.items)
    /\ pc' = "done"
    /\ exit' = "panic"
    /\ UNCHANGED <<args, connected, arr, outbox, answered, received, streamOpen,
                   result, log, saved>>
    /\ UNCHANGED <<typesVars, treeVars>>

\* the loop is over: Ok(())
SaveDone ==
    /\ pc = "handle"
    /\ result.tag = "Some"
    /\ Len(saved) = Len(result.items)
    /\ pc' = "done"
    /\ exit' = "Ok"
    /\ UNCHANGED <<args, connected, arr, outbox, answered, received, streamOpen,
                   result, log, saved>>
    /\ UNCHANGED <<typesVars, treeVars>>

\* else { error!(..) }, then Ok(())
HandleNone ==
    /\ pc = "handle"
    /\ result.tag = "None"
    /\ log' = LogNoData(log)
    /\ pc' = "done"
    /\ exit' = "Ok"
    /\ UNCHANGED <<args, connected, arr, outbox, answered, received, streamOpen,
                   result, saved>>
    /\ UNCHANGED <<typesVars, treeVars>>

-----------------------------------------------------------------------------
(* Specifications *)

\* the submit command, from its arguments to its exit
Init == IdleTypes /\ IdleTree /\ InitCli

Next ==
    \/ ConnectOk \/ ConnectFails \/ CreateDirOk \/ CreateDirFails
    \/ ReadArgsOk \/ ReadArgsPanics
    \/ SubmitSend \/ SubmitSendFails \/ BatcherRespond \/ BatcherClose
    \/ SubmitReceive \/ SubmitReturn
    \/ SaveResponse \/ SaveResponsePanics \/ SaveDone \/ HandleNone

Spec == Init /\ [][Next]_vars

\* a client of the library calling submit with 1..MaxItems items on an open
\* connection, and treating the returned value as main does
\* the items a caller hands over: an empty and a non-empty proof file
SdkPool == { v \in BatchPool : Len(v.proof) <= Len(FileContent) }

InitSdk ==
    /\ IdleTypes /\ IdleTree
    /\ pc = "sending"
    /\ args = NoArgs
    /\ connected = TRUE
    /\ streamOpen = TRUE
    /\ \E n \in 1..MaxItems : arr \in [1..n -> SdkPool]
    /\ outbox = <<>>
    /\ answered = <<>>
    /\ received = <<>>
    /\ result = NoResult
    /\ log = <<>>
    /\ saved = <<>>
    /\ exit = "running"

NextSdk ==
    \/ SubmitSend \/ SubmitSendFails \/ BatcherRespond \/ BatcherClose
    \/ SubmitReceive \/ SubmitReturn
    \/ SaveResponse \/ SaveResponsePanics \/ SaveDone \/ HandleNone

SpecSdk == InitSdk /\ [][NextSdk]_vars

\* one VerificationData through commit, sign, transport, verify_signature
InitTypesOnly == InitTypes /\ IdleTree /\ IdleCli

SpecTypes == InitTypesOnly /\ [][NextTypes]_vars

\* a batch, its tree, one inclusion proof and its verification
InitTreeOnly == IdleTypes /\ IdleTree /\ IdleCli

SpecTree == InitTreeOnly /\ [][NextTree]_vars

-----------------------------------------------------------------------------
(* Properties *)

\* the arguments fail validation: an unrecognized proving-system tag, or an
\* auxiliary file the chosen proving system requires was not given
ArgsInvalid(a) ==
    \/ a.proving_system_flag \notin ProvingSystemId
    \/ a.proving_system_flag = "SP1" /\ ~a.vm_program_code_file_name
    \/ /\ a.proving_system_flag \in ProvingSystemId \ {"SP1"}
       /\ ~(a.verification_key_file_name /\ a.pub_input_file_name)

\* C1: in a run of the submit command whose arguments are invalid, no
\* connection to the batching service is ever opened (validation comes first).
C1_ValidationBeforeNetwork == ArgsInvalid(args) => ~connected

\* C2: verify_signature ends with a recovered address or a SignatureError
\* value for every ClientMessage; it never panics.
C2_VerifySignatureNeverPanics == recovered.tag \in {"none", "Ok", "Err"}

\* C3: commit never yields a commitment for an input in which both
\* vm_program_code and verification_key are present.
C3_CommitRejectsBothSources ==
    (input.vm_program_code.some /\ input.verification_key.some) => committed.tag # "Ok"

\* C4: an absent optional field is committed as 32 zero bytes, never as the
\* hash of the empty sequence; a present field (even an empty one) as its hash.
C4_AbsenceEncoding ==
    committed.tag = "Ok" =>
        /\ ~input.pub_input.some =>
              /\ committed.c.pub_input_commitment = Zero32
              /\ committed.c.pub_input_commitment # Keccak256(<<>>)
        /\ input.pub_input.some =>
              committed.c.pub_input_commitment = Keccak256(input.pub_input.v)
        /\ (~input.vm_program_code.some /\ ~input.verification_key.some) =>
              /\ committed.c.proving_system_aux_data_commitment = Zero32
              /\ committed.c.proving_system_aux_data_commitment # Keccak256(<<>>)
        /\ input.vm_program_code.some =>
              committed.c.proving_system_aux_data_commitment
                  = Keccak256(input.vm_program_code.v)
        /\ (~input.vm_program_code.some /\ input.verification_key.some) =>
              committed.c.proving_system_aux_data_commitment
                  = Keccak256(input.verification_key.v)

C4_Witness ==
    /\ committed.tag = "Ok"
    /\ ~input.pub_input.some
    /\ ~input.vm_program_code.some
    /\ ~input.verification_key.some

\* C5: for every batch of size 1..MaxBatch and every valid index, the
\* BatchInclusionData built for that index verifies against the leaf at it.
C5_InclusionRoundTrip ==
    /\ verdict # "none" => verdict = "true"
    /\ (inclusion.tag = "Ok" /\ inclusion.index_in_batch < Len(batch)) =>
          /\ inclusion.batch_merkle_root = tree.root
          /\ Proof_verify(inclusion.batch_inclusion_proof, tree.root,
                          inclusion.index_in_batch,
                          Commitments(batch)[inclusion.index_in_batch + 1])

C5_Witness ==
    /\ verdict = "true"
    /\ Len(batch) = 3
    /\ inclusion.index_in_batch = 2

\* the fields of v that commit reads into the commitment of v
EntersCommitment(v, f) ==
    \/ f \in {"proof", "pub_input", "vm_program_code", "proof_generator_addr"}
    \/ f = "verification_key" /\ ~v.vm_program_code.some

\* C6: verify_signature on the message made by sign(v, k) returns the address
\* of k; after a change to a field of v that enters the commitment it returns
\* another address or fails.
C6_SignatureRoundTrip ==
    recovered.tag # "none" =>
        /\ tampered = "none" => recovered = Ok(AddressOf(SignerKey))
        /\ (tampered \in Fields /\ EntersCommitment(input, tampered)) =>
              recovered # Ok(AddressOf(SignerKey))

OmittedReported(k) ==
    \E i \in 1..Len(log) : log[i].line = "omitted submissions" /\ log[i].n = k

NoDataSignalled ==
    \E i \in 1..Len(log) :
        log[i].line = "No batch inclusion data was received from the batcher"

\* submit has returned after all items were sent
Returned == result.tag \in {"Some", "None"}

C9_SendsRepetitions ==
    /\ (pc \in {"awaiting", "handle"} \/ Returned) => Len(outbox) = args.repetitions
    /\ Returned => (Len(received) = args.repetitions \/ ~streamOpen)

\* C10: the root of a 2-leaf tree is Hash(hash_data(L0) || hash_data(L1)) with
\* hash_data(c) = Hash(proof_commitment || pub_input_commitment ||
\* proving_system_aux_data_commitment || proof_generator_addr), and that leaf
\* digest is the digest the message's signature is over and verifies against.
LeafDigest(c) ==
    Keccak256(<< c.proof_commitment, c.pub_input_commitment,
                 c.proving_system_aux_data_commitment, c.proof_generator_addr >>)

C10_LeafParentExact ==
    (tree.built /\ Len(batch) = 2) =>
        /\ tree.root = Keccak256(<< LeafDigest(Commitments(batch)[1]),
                                    LeafDigest(Commitments(batch)[2]) >>)
        /\ \A i \in 1..2 :
              /\ batch[i].signature.digest = LeafDigest(Commitments(batch)[i])
              /\ verify_signature(batch[i], "release") = Ok(AddressOf(SignerKey))

C10_Witness ==
    /\ tree.built
    /\ Len(batch) = 2
    /\ batch[1] # batch[2]

\* the proving system is recognized and a file argument it requires is absent
RequiredMissing(a) ==
    \/ a.proving_system_flag = "SP1" /\ ~a.vm_program_code_file_name
    \/ /\ a.proving_system_flag \in ProvingSystemId \ {"SP1"}
       /\ ~(a.verification_key_file_name /\ a.pub_input_file_name)

\* field presence per proving system
PresenceInvariant(v) ==
    IF v.proving_system = "SP1"
    THEN v.vm_program_code.some /\ ~v.verification_key.some /\ ~v.pub_input.some
    ELSE v.verification_key.some /\ v.pub_input.some /\ ~v.vm_program_code.some

\* main stopped at the unwrap of verification_data_from_args with error e
RejectedWith(e) ==
    /\ exit = "panic"
    /\ arr = <<>>
    /\ log # <<>>
    /\ log[Len(log)].line = e

\* verification_data_from_args has been called
ArgsRead == pc \in {"sending", "awaiting", "handle"} \/ (pc = "done" /\ exit \in {"Ok", "panic"})

\* a file read that precedes the detection of the missing argument fails: the
\* proof file, or the verification key file when only the public input is absent
EarlierReadFails(a) ==
    \/ ~a.proof_readable
    \/ /\ a.proving_system_flag # "SP1"
       /\ a.verification_key_file_name
       /\ ~a.verification_key_readable

\* C11 as stated: a returned VerificationData satisfies the field-presence
\* invariant of its proving system, and a missing required file argument gives
\* MissingParameter and no VerificationData.
C11_PresenceOrMissingParameter ==
    /\ arr # <<>> =>
          /\ arr[1].proving_system = args.proving_system_flag
          /\ PresenceInvariant(arr[1])
    /\ RequiredMissing(args) => arr = <<>>
    /\ (RequiredMissing(args) /\ ArgsRead) => RejectedWith("MissingParameter")

\* C11 amended: as above, but the result for a missing required file argument
\* is IoError when a file read that comes before its detection fails, and
\* MissingParameter otherwise; in both cases no VerificationData is produced.
C11_PresenceOrRejected ==
    /\ arr # <<>> =>
          /\ arr[1].proving_system = args.proving_system_flag
          /\ PresenceInvariant(arr[1])
    /\ RequiredMissing(args) => arr = <<>>
    /\ (RequiredMissing(args) /\ ArgsRead) =>
          RejectedWith(IF EarlierReadFails(args) THEN "IoError" ELSE "MissingParameter")

C11_Witness ==
    /\ arr # <<>>
    /\ arr[1].proving_system = "SP1"
    /\ args.pub_input_file_name
    /\ args.verification_key_file_name
    /\ PresenceInvariant(arr[1])

====
